---------------------------- MODULE Spec2Model ----------------------------
(***************************************************************************)
(* Model of src/Water_Level_Analysis.py: the analysis that main() runs on  *)
(* an uploaded CSV file (lines 41-107) and the branch that displays the    *)
(* result (lines 109-199).                                                 *)
(*                                                                         *)
(* Numbers.  Levels are decimal readings; the model keeps a level as an    *)
(* integer number of centimetres (unit 0.01 m) and a Timestamp as an       *)
(* integer number of seconds.  Every quotient the code forms (hours,       *)
(* rates) is kept as an exact fraction [num, den]; round(x, d) is          *)
(* round-half-to-even on that exact value.  Binary floating-point error    *)
(* is outside the model.                                                   *)
(*                                                                         *)
(* Indices are the 0-based positions of the code; Row(d, k) reads          *)
(* position k of a frame.                                                  *)
(***************************************************************************)
EXTENDS Integers, Sequences, FiniteSets

VARIABLES
    file,                 \* rows of the uploaded CSV, in file order
    df,                   \* the frame after sort_values/reset_index (line 42)
    levels,               \* df['Level above Pump'].values (line 43)
    peaks,                \* result of find_peaks (line 46), 0-based indices
    i,                    \* loop variable of `for i in range(len(peaks) - 1)`
    cycles,               \* the list of records appended at lines 94-107
    cumulative_drawdown,  \* running total (lines 51, 90), in cm
    row,                  \* local variables of the loop body, latest iteration
    pc                    \* position in main()

vars == <<file, df, levels, peaks, i, cycles, cumulative_drawdown, row, pc>>

---------------------------------------------------------------------------
(* Bounds of the input space *)

MaxLen == 5
LongLen == 9

ShortLevels == {-1200, -1000, -900, 200}
LongLevels == {0, 100, 204}
TimeSteps == {0, 3600}

(* Program constants *)

SecondsPerHour == 3600
CmPerMetre == 100
MinDrawdownMetres == 2
MinDrawdown == MinDrawdownMetres * CmPerMetre
UnitArea == 1

---------------------------------------------------------------------------
(* Exact fractions *)

Rat(n, d) == [num |-> n, den |-> d]
Zero == Rat(0, 1)
NaN == [nan |-> TRUE, val |-> Zero]
Num(x) == [nan |-> FALSE, val |-> x]

Metres(cm) == Rat(cm, CmPerMetre)
Hours(seconds) == Rat(seconds, SecondsPerHour)
Neg(a) == Rat(0 - a.num, a.den)

RECURSIVE Gcd(_, _)
Gcd(a, b) == IF b = 0 THEN a ELSE Gcd(b, a % b)
Abs(a) == IF a < 0 THEN 0 - a ELSE a

\* n/d for d > 0, in lowest terms
Lowest(n, d) ==
    LET g == Gcd(Abs(n), d) IN Rat(n \div g, d \div g)

\* a / b in Python: raises ZeroDivisionError when b is 0 (den 0 marks it)
RatDiv(a, b) ==
    IF b.num = 0 THEN Rat(a.num, 0)
    ELSE IF b.num > 0 THEN Lowest(a.num * b.den, a.den * b.num)
    ELSE Lowest(0 - (a.num * b.den), 0 - (a.den * b.num))

RatEq(a, b) == a.num * b.den = b.num * a.den
RatGt0(a) == a.num > 0
RatGe(a, b) == a.num * b.den >= b.num * a.den

Pow10(d) == IF d = 0 THEN 1 ELSE IF d = 1 THEN 10 ELSE 100

\* round-half-to-even of n/d (d > 0) to an integer
RoundHalfEven(n, d) ==
    LET q == (2 * n + d) \div (2 * d)
        tie == (2 * n + d) % (2 * d) = 0
    IN  IF tie /\ q % 2 # 0 THEN q - 1 ELSE q

\* round(x, digits), as an integer count of 10^-digits
Round(x, digits) == RoundHalfEven(x.num * Pow10(digits), x.den)

---------------------------------------------------------------------------
(* The frame *)

Row(d, k) == d[k + 1]
Level(d, k) == Row(d, k).Level
Timestamp(d, k) == Row(d, k).Timestamp

RECURSIVE InsertRow(_, _)
InsertRow(sorted, r) ==
    IF sorted = <<>> THEN <<r>>
    ELSE IF sorted[Len(sorted)].Timestamp <= r.Timestamp THEN Append(sorted, r)
    ELSE Append(InsertRow(SubSeq(sorted, 1, Len(sorted) - 1), r), sorted[Len(sorted)])

RECURSIVE SortValues(_)
\* df.sort_values('Timestamp').reset_index(drop=True)
SortValues(rows) ==
    IF rows = <<>> THEN <<>>
    ELSE InsertRow(SortValues(SubSeq(rows, 1, Len(rows) - 1)), rows[Len(rows)])

Reverse(s) == [k \in 1..Len(s) |-> s[Len(s) + 1 - k]]

RECURSIVE StampFrom(_, _)
\* timestamps 0, then each earlier one plus its step
StampFrom(steps, k) == IF k = 1 THEN 0 ELSE StampFrom(steps, k - 1) + steps[k - 1]

MakeRows(lv, steps) ==
    [k \in 1..Len(lv) |-> [Timestamp |-> StampFrom(steps, k), Level |-> lv[k]]]

HourlySteps == [k \in 1..(LongLen - 1) |-> SecondsPerHour]

\* the uploaded file: short files over ShortLevels with any TimeSteps, written
\* oldest-first or newest-first, and hourly files of LongLen rows over LongLevels
IsUpload(f) ==
    \/ \E n \in 1..MaxLen : \E lv \in [1..n -> ShortLevels] :
         \E st \in [1..(n - 1) -> TimeSteps] : \E newestFirst \in BOOLEAN :
            f = IF newestFirst THEN Reverse(MakeRows(lv, st)) ELSE MakeRows(lv, st)
    \/ \E lv \in [1..LongLen -> LongLevels] : f = MakeRows(lv, HourlySteps)

NoRow ==
    [ step |-> "none", start_idx |-> 0, end_idx |-> 0, swl |-> 0,
      min_level_idx |-> 0, max_drawdown_value |-> 0,
      time_to_max_drawdown |-> Zero, recovery_time |-> Zero,
      drawdown_rate |-> Zero, recharge_rate |-> Zero,
      time_to_90_recovery |-> NaN, cycle_duration |-> Zero,
      hourly_fluctuations |-> Zero ]

Init ==
    /\ IsUpload(file)
    /\ df = <<>>
    /\ levels = <<>>
    /\ peaks = <<>>
    /\ i = 0
    /\ cycles = <<>>
    /\ cumulative_drawdown = 0
    /\ row = NoRow
    /\ pc = "upload"

ReadCsv ==
    /\ pc = "upload"
    /\ df' = SortValues(file)
    /\ levels' = [k \in 1..Len(file) |-> SortValues(file)[k].Level]
    /\ pc' = "peaks"
    /\ UNCHANGED <<file, peaks, i, cycles, cumulative_drawdown, row>>

---------------------------------------------------------------------------
(* scipy.signal.find_peaks(levels, prominence=0), called at line 46 *)

At(x, k) == x[k + 1]

RECURSIVE PlateauEnd(_, _, _)
\* `while i_ahead < i_max and x[i_ahead] == x[i]: i_ahead += 1`
PlateauEnd(x, k, ahead) ==
    IF ahead < Len(x) - 1 /\ At(x, ahead) = At(x, k)
    THEN PlateauEnd(x, k, ahead + 1)
    ELSE ahead

RECURSIVE LocalMaxima(_, _, _)
\* the scan for local maxima from position k on (k runs over 1 .. len-2);
\* a plateau is reported once, by the midpoint of its edges
LocalMaxima(x, k, found) ==
    IF k >= Len(x) - 1 THEN found
    ELSE IF At(x, k - 1) < At(x, k)
         THEN LET ahead == PlateauEnd(x, k, k + 1)
              IN  IF At(x, ahead) < At(x, k)
                  THEN LocalMaxima(x, ahead + 1,
                                   Append(found, (k + (ahead - 1)) \div 2))
                  ELSE LocalMaxima(x, k + 1, found)
         ELSE LocalMaxima(x, k + 1, found)

RECURSIVE LeftMin(_, _, _, _)
\* lowest value walking left from the peak until a higher sample
LeftMin(x, peak, k, lowest) ==
    IF 0 <= k /\ At(x, k) <= At(x, peak)
    THEN LeftMin(x, peak, k - 1, IF At(x, k) < lowest THEN At(x, k) ELSE lowest)
    ELSE lowest

RECURSIVE RightMin(_, _, _, _)
RightMin(x, peak, k, lowest) ==
    IF k <= Len(x) - 1 /\ At(x, k) <= At(x, peak)
    THEN RightMin(x, peak, k + 1, IF At(x, k) < lowest THEN At(x, k) ELSE lowest)
    ELSE lowest

Prominence(x, peak) ==
    LET l == LeftMin(x, peak, peak, At(x, peak))
        r == RightMin(x, peak, peak, At(x, peak))
    IN  At(x, peak) - (IF l > r THEN l ELSE r)

\* a detector that also takes the two ends of the series as candidates
find_peaks_WithEnds(x) ==
    LET low == 0 - 1000000
        padded == <<low>> \o x \o <<low>>
        found == LocalMaxima(padded, 1, <<>>)
    IN  [k \in 1..Len(found) |-> found[k] - 1]

MinProminence == 0

find_peaks(x) ==
    SelectSeq(LocalMaxima(x, 1, <<>>), LAMBDA p : MinProminence <= Prominence(x, p))

PeakDetection ==
    /\ pc = "peaks"
    /\ peaks' = find_peaks(levels)
    /\ cycles' = <<>>
    /\ cumulative_drawdown' = 0
    /\ i' = 0
    /\ pc' = "loop"
    /\ UNCHANGED <<file, df, levels, row>>

---------------------------------------------------------------------------
(* Cycle processing, lines 54-107 *)

\* range(len(peaks))
LoopRange_OnePast == Len(peaks)

\* range(len(peaks) - 1)
LoopRange == Len(peaks) - 1

\* df.iloc[start_idx:end_idx]
CycleData_ExclusiveEnd(start_idx, end_idx) ==
    IF end_idx <= start_idx THEN <<>>
    ELSE [k \in 1..(end_idx - start_idx) |-> start_idx + k - 1]

\* df.iloc[start_idx:end_idx + 1], as the sequence of its index labels
CycleData(start_idx, end_idx) ==
    IF end_idx + 1 <= start_idx THEN <<>>
    ELSE [k \in 1..(end_idx + 1 - start_idx) |-> start_idx + k - 1]

RECURSIVE IdxMin(_, _, _)
\* cycle_data['Level above Pump'].idxmin(): label of the first minimum
IdxMin(cycle_data, k, best) ==
    IF k > Len(cycle_data) THEN best
    ELSE IdxMin(cycle_data, k + 1,
                IF Level(df, cycle_data[k]) < Level(df, best)
                THEN cycle_data[k] ELSE best)

\* `if max_drawdown_value <= 2: continue`
BelowMinDrawdown_Inclusive(max_drawdown_value) == max_drawdown_value <= MinDrawdown

\* `if max_drawdown_value < 2: continue`
BelowMinDrawdown(max_drawdown_value) == max_drawdown_value < MinDrawdown

\* `value / hours`, unguarded
Rate_Unguarded(value_cm, hours) == RatDiv(Metres(value_cm), hours)

\* `value / hours if hours > 0 else 0`
Rate(value_cm, hours) ==
    IF RatGt0(hours) THEN RatDiv(Metres(value_cm), hours) ELSE Zero

\* cycle_data[cycle_data['Level above Pump'] >= recovery_level]
RecoverySubset(cycle_data, swl) ==
    SelectSeq(cycle_data,
              LAMBDA k : RatGe(Metres(Level(df, k)), Rat(9 * swl, 10 * CmPerMetre)))

\* -1 * (recovery_subset['Timestamp'].iloc[0] - min_time).total_seconds() / 3600
\*     if not recovery_subset.empty else np.nan
TimeTo90Recovery(recovery_subset, min_time) ==
    IF recovery_subset # <<>>
    THEN Num(Neg(Hours(Timestamp(df, recovery_subset[1]) - min_time)))
    ELSE NaN

\* `cumulative_drawdown = max_drawdown_value`
Accumulate_Overwrite(total, max_drawdown_value) == max_drawdown_value

\* `cumulative_drawdown += max_drawdown_value`
Accumulate(total, max_drawdown_value) == total + max_drawdown_value

\* 'cycle_number': i + 1
CycleNumber_ByCandidate == i + 1

\* 'cycle_number': len(cycles) + 1
CycleNumber == Len(cycles) + 1

\* round(x, 2) if not np.isnan(x) else np.nan
RoundOrNaN(x, digits) ==
    IF x.nan THEN [nan |-> TRUE, val |-> 0] ELSE [nan |-> FALSE, val |-> Round(x.val, digits)]

Raised(r) ==
    \/ r.drawdown_rate.den = 0
    \/ r.recharge_rate.den = 0
    \/ r.hourly_fluctuations.den = 0

\* the body up to the second `continue`: the values of the local variables
Locals ==
    LET start_idx == At(peaks, i)
        end_idx == At(peaks, i + 1)
        cycle_data == CycleData(start_idx, end_idx)
    IN  IF Len(cycle_data) < 2
        THEN [row EXCEPT !.step = "short", !.start_idx = start_idx,
                         !.end_idx = end_idx]
        ELSE
        LET swl == Level(df, cycle_data[1])
            min_level_idx == IdxMin(cycle_data, 1, cycle_data[1])
            min_level == Level(df, min_level_idx)
            max_drawdown_value == swl - min_level
        IN  IF BelowMinDrawdown(max_drawdown_value)
            THEN [row EXCEPT !.step = "rejected", !.start_idx = start_idx,
                             !.end_idx = end_idx, !.swl = swl,
                             !.min_level_idx = min_level_idx,
                             !.max_drawdown_value = max_drawdown_value]
            ELSE
            LET start_time == Timestamp(df, cycle_data[1])
                min_time == Timestamp(df, min_level_idx)
                end_time == Timestamp(df, cycle_data[Len(cycle_data)])
                time_to_max_drawdown == Hours(min_time - start_time)
                recovery_time == Hours(end_time - min_time)
                cycle_duration == Hours(end_time - start_time)
            IN  [ step |-> "appended",
                  start_idx |-> start_idx,
                  end_idx |-> end_idx,
                  swl |-> swl,
                  min_level_idx |-> min_level_idx,
                  max_drawdown_value |-> max_drawdown_value,
                  time_to_max_drawdown |-> time_to_max_drawdown,
                  recovery_time |-> recovery_time,
                  drawdown_rate |-> Rate(max_drawdown_value, time_to_max_drawdown),
                  recharge_rate |-> Rate(max_drawdown_value, recovery_time),
                  time_to_90_recovery |->
                      TimeTo90Recovery(RecoverySubset(cycle_data, swl), min_time),
                  cycle_duration |-> cycle_duration,
                  hourly_fluctuations |-> Rate(swl - min_level, cycle_duration) ]

\* the dictionary appended at lines 94-107; levels and rates in tenths
\* (1 decimal), hour durations in hundredths (2 decimals)
Record(r, total) ==
    [ cycle_number |-> CycleNumber,
      start_time |-> Timestamp(df, r.start_idx),
      SWL |-> Round(Metres(r.swl), 1),
      MaxDrawdown |-> Round(Metres(r.max_drawdown_value), 1),
      DrawdownRate |-> Round(r.drawdown_rate, 1),
      RecoveryTime |-> Round(r.recovery_time, 2),
      RechargeRate |-> Round(r.recharge_rate, 1),
      TimeToMaxDrawdown |-> Round(r.time_to_max_drawdown, 2),
      Recovery90Time |-> RoundOrNaN(r.time_to_90_recovery, 2),
      HourlyFluctuation |-> Round(r.hourly_fluctuations, 1),
      CumulativeDrawdown |-> Round(Metres(total), 1),
      RechargeVolume |-> Round(Metres(r.max_drawdown_value * UnitArea), 1) ]

\* one iteration of the for loop; an exception leaves through the handler of
\* lines 197-199
CycleProcessing ==
    /\ pc = "loop"
    /\ i < LoopRange
    /\ IF i + 1 >= Len(peaks)
       THEN \* peaks[i + 1]: IndexError
            /\ pc' = "error"
            /\ UNCHANGED <<i, cycles, cumulative_drawdown, row>>
       ELSE LET r == Locals
                total == Accumulate(cumulative_drawdown, r.max_drawdown_value)
            IN  IF r.step # "appended"
                THEN /\ row' = r
                     /\ i' = i + 1
                     /\ UNCHANGED <<cycles, cumulative_drawdown, pc>>
                ELSE IF Raised(r)
                THEN \* ZeroDivisionError
                     /\ row' = r
                     /\ pc' = "error"
                     /\ UNCHANGED <<i, cycles, cumulative_drawdown>>
                ELSE /\ row' = r
                     /\ cumulative_drawdown' = total
                     /\ cycles' = Append(cycles, Record(r, total))
                     /\ i' = i + 1
                     /\ UNCHANGED pc
    /\ UNCHANGED <<file, df, levels, peaks>>

\* lines 109-195: the dashboard when there are cycles, else the warning
Display ==
    /\ pc = "loop"
    /\ i >= LoopRange
    /\ pc' = IF cycles # <<>> THEN "dashboard" ELSE "warning"
    /\ UNCHANGED <<file, df, levels, peaks, i, cycles, cumulative_drawdown, row>>

Next == ReadCsv \/ PeakDetection \/ CycleProcessing \/ Display

Spec == Init /\ [][Next]_vars
---------------------------------------------------------------------------
(* Vocabulary of the properties: the candidates and their drawdowns, stated *)
(* directly on the sorted frame and the peak list                           *)

Analysed == pc \in {"loop", "dashboard", "warning", "error"}
Finished == pc \in {"dashboard", "warning", "error"}

\* the candidate cycles: pairs (peaks[k], peaks[k+1])
Candidates == 0..(Len(peaks) - 2)
Slice(k) == At(peaks, k)..At(peaks, k + 1)
Trough(k) ==
    CHOOSE m \in Slice(k) :
        /\ \A n \in Slice(k) : Level(df, m) <= Level(df, n)
        /\ \A n \in Slice(k) : n < m => Level(df, m) < Level(df, n)
Drawdown(k) == Level(df, At(peaks, k)) - Level(df, Trough(k))
IsAccepted(k) == Drawdown(k) >= MinDrawdown

\* the accepted candidates among the first n, in order
AcceptedOf(n) == SelectSeq([k \in 1..n |-> k - 1], IsAccepted)
Accepted == AcceptedOf(i)

RECURSIVE SumTo(_, _)
SumTo(f, k) == IF k = 0 THEN 0 ELSE SumTo(f, k - 1) + f[k]

SharedTimestamp ==
    \E k \in 1..(Len(df) - 1) : df[k].Timestamp = df[k + 1].Timestamp
StrictTimestamps ==
    \A k \in 1..(Len(df) - 1) : df[k].Timestamp < df[k + 1].Timestamp

\* level >= 0.9 x SWL, in centimetres
Reaches90(level, swl) == 10 * level >= 9 * swl

---------------------------------------------------------------------------
\* C1: a candidate cycle produces a record if and only if its drawdown
\* SWL - minLevel is at least 2.0 m: the records are exactly the accepted
\* candidates processed so far, in order, and every record's maxDrawdown is
\* at least 2.0.
C1_RecordsAreAcceptedCandidates ==
    Analysed =>
        /\ Len(cycles) = Len(Accepted)
        /\ \A j \in 1..Len(cycles) :
              /\ cycles[j].start_time = Timestamp(df, At(peaks, Accepted[j]))
              /\ cycles[j].MaxDrawdown = Round(Metres(Drawdown(Accepted[j])), 1)
              /\ cycles[j].MaxDrawdown >= 10 * MinDrawdownMetres

C1_Witness ==
    /\ pc = "dashboard"
    /\ \E a, b \in Candidates : IsAccepted(a) /\ ~IsAccepted(b) /\ Drawdown(b) > 0

\* C2 as stated: the cumulativeDrawdown field of the k-th record equals
\* exactly the sum of the maxDrawdown fields of records 1..k.
C2_SumOfReportedFields ==
    \A k \in 1..Len(cycles) :
        cycles[k].CumulativeDrawdown =
            SumTo([j \in 1..Len(cycles) |-> cycles[j].MaxDrawdown], k)

\* C2 amended: the cumulativeDrawdown field of the k-th record is the sum of
\* the unrounded drawdowns of accepted cycles 1..k, rounded to one decimal,
\* and it never decreases from record to record.
C2_RoundedSumOfDrawdowns ==
    Analysed =>
        /\ Len(cycles) <= Len(Accepted)
        /\ \A k \in 1..Len(cycles) :
              cycles[k].CumulativeDrawdown =
                  Round(Metres(SumTo([j \in 1..Len(Accepted) |->
                                         Drawdown(Accepted[j])], k)), 1)
        /\ \A k \in 1..(Len(cycles) - 1) :
              cycles[k].CumulativeDrawdown <= cycles[k + 1].CumulativeDrawdown

C2_Witness ==
    /\ Len(cycles) >= 2
    /\ cycles[2].CumulativeDrawdown # cycles[1].MaxDrawdown + cycles[2].MaxDrawdown

\* C3 as stated: for an accepted cycle, timeTo90PctRecoveryHours is absent
\* whenever no sample of the cycle after the trough has a level >= 0.9 x SWL.
C3_AbsentWithoutRecovery ==
    (/\ row.step = "appended"
     /\ \A k \in (row.min_level_idx + 1)..row.end_idx :
            ~Reaches90(Level(df, k), row.swl))
    => /\ row.time_to_90_recovery.nan
       /\ cycles[Len(cycles)].Recovery90Time.nan

\* C4 as stated: when timeTo90PctRecoveryHours is present, it is the number
\* of hours from the trough to the first sample at or after the trough whose
\* level is >= 0.9 x SWL, and it is never negative.
C4_HoursFromTroughToRecovery ==
    (row.step = "appended" /\ ~row.time_to_90_recovery.nan)
    => /\ row.time_to_90_recovery.val.num >= 0
       /\ \E k \in row.min_level_idx..row.end_idx :
             /\ Reaches90(Level(df, k), row.swl)
             /\ \A m \in row.min_level_idx..(k - 1) :
                    ~Reaches90(Level(df, m), row.swl)
             /\ RatEq(row.time_to_90_recovery.val,
                      Hours(Timestamp(df, k) - Timestamp(df, row.min_level_idx)))

\* C5: the records carry cycleNumber 1, 2, ..., n in output order, n being
\* the number of accepted cycles; a rejected candidate consumes no number.
C5_SequentialCycleNumbers ==
    /\ \A k \in 1..Len(cycles) : cycles[k].cycle_number = k
    /\ Finished /\ pc # "error" => Len(cycles) = Len(AcceptedOf(Len(peaks) - 1))

C5_Witness ==
    /\ pc = "dashboard"
    /\ Len(cycles) = 2
    /\ \E a, b, c \in Candidates :
          a < b /\ b < c /\ IsAccepted(a) /\ ~IsAccepted(b) /\ IsAccepted(c)

RateIs(rate, reported, hours, drawdown) ==
    IF hours.num = 0
    THEN rate = Zero /\ reported = 0
    ELSE /\ hours.num > 0
         /\ rate.den > 0
         /\ rate.num * (CmPerMetre * hours.num) = (drawdown * hours.den) * rate.den
         /\ reported = Round(rate, 1)

\* C6: for an accepted cycle, drawdownRate, rechargeRate and
\* hourlyFluctuation are exactly 0 when their time denominator is 0, the
\* computation never divides by zero or raises, and with a positive
\* denominator the rate is maxDrawdown divided by it.
C6_RatesSaturateAtZero ==
    /\ pc # "error"
    /\ row.step = "appended" =>
          LET rec == cycles[Len(cycles)]
              dd == row.max_drawdown_value
          IN  /\ RateIs(row.drawdown_rate, rec.DrawdownRate,
                        row.time_to_max_drawdown, dd)
              /\ RateIs(row.recharge_rate, rec.RechargeRate, row.recovery_time, dd)
              /\ RateIs(row.hourly_fluctuations, rec.HourlyFluctuation,
                        row.cycle_duration, dd)

C6_Witness ==
    /\ row.step = "appended"
    /\ row.time_to_max_drawdown.num = 0
    /\ row.recovery_time.num > 0
    /\ cycles[Len(cycles)].DrawdownRate = 0
    /\ cycles[Len(cycles)].RechargeRate > 0

\* p lies on a run of equal samples that is strictly higher than the sample
\* before it and the sample after it, all inside the series
IsLocalMaximum(x, p) ==
    \E l \in 1..p : \E r \in p..(Len(x) - 2) :
        /\ \A k \in l..r : At(x, k) = At(x, p)
        /\ At(x, l - 1) < At(x, p)
        /\ At(x, r + 1) < At(x, p)

\* C7: peak detection never reports the first or the last index, the peak
\* list is strictly increasing, and every reported index is an interior
\* sample whose level is a local maximum.
C7_PeaksInteriorAscending ==
    Analysed =>
        /\ \A j \in 1..Len(peaks) :
              /\ 0 < peaks[j]
              /\ peaks[j] < Len(levels) - 1
              /\ IsLocalMaximum(levels, peaks[j])
        /\ \A j \in 1..(Len(peaks) - 1) : peaks[j] < peaks[j + 1]

C7_Witness ==
    /\ Analysed
    /\ Len(peaks) >= 2
    /\ \A j \in 1..Len(peaks) :
          /\ At(levels, 0) > At(levels, peaks[j])
          /\ At(levels, Len(levels) - 1) > At(levels, peaks[j])

NonDecreasing(x) == \A k \in 1..(Len(x) - 1) : x[k] <= x[k + 1]

\* C8: with fewer than 2 peaks (in particular for a non-decreasing or flat
\* series and for a series of fewer than 3 samples) the cycle pass runs no
\* iteration and the result is the empty report, reached without error.
C8_FewPeaksEmptyReport ==
    Analysed =>
        /\ (NonDecreasing(levels) \/ Len(levels) < 3) => Len(peaks) = 0
        /\ Len(peaks) < 2 =>
              /\ row.step = "none"
              /\ i = 0
              /\ cycles = <<>>
              /\ pc \in {"loop", "warning"}

C8_Witness ==
    /\ pc = "warning"
    /\ Len(peaks) = 1
    /\ row.step = "none"

\* C9 as stated: when two readings of the sorted series share a timestamp,
\* segmentation fails with an error and emits no cycle records.
C9_SharedTimestampFails ==
    (Analysed /\ SharedTimestamp) =>
        /\ cycles = <<>>
        /\ Finished => pc = "error"

\* C9 amended: when two readings of the sorted series share a timestamp,
\* segmentation does not fail: the pass ends without error, in the dashboard
\* exactly when some candidate has a drawdown of at least 2.0 and in the
\* empty-report warning otherwise, and every rate of a record whose time
\* denominator is 0 is reported as 0.
C9_SharedTimestampTolerated ==
    (Analysed /\ SharedTimestamp) =>
        /\ pc # "error"
        /\ Finished => (pc = "dashboard" <=> \E k \in Candidates : IsAccepted(k))
        /\ row.step = "appended" =>
              /\ row.time_to_max_drawdown.num = 0
                    => cycles[Len(cycles)].DrawdownRate = 0
              /\ row.recovery_time.num = 0
                    => cycles[Len(cycles)].RechargeRate = 0
              /\ row.cycle_duration.num = 0
                    => cycles[Len(cycles)].HourlyFluctuation = 0

C9_Witness ==
    /\ pc = "dashboard"
    /\ SharedTimestamp
    /\ row.cycle_duration.num = 0
    /\ cycles[1].HourlyFluctuation = 0

\* C10: in every iteration the slice has at least 3 samples, so the
\* `fewer than 2 samples` skip is never taken; the trough lies strictly
\* between the start peak and the end peak; and for an accepted cycle on
\* strictly increasing timestamps timeToMaxDrawdown and recoveryTime are
\* positive and neither rate is forced to 0.
C10_TroughStrictlyInside ==
    row.step # "none" =>
        /\ row.step # "short"
        /\ row.end_idx - row.start_idx + 1 >= 3
        /\ row.start_idx < row.min_level_idx
        /\ row.min_level_idx < row.end_idx
        /\ (row.step = "appended" /\ StrictTimestamps) =>
              /\ row.time_to_max_drawdown.num > 0
              /\ row.recovery_time.num > 0
              /\ row.drawdown_rate.num > 0
              /\ row.recharge_rate.num > 0

C10_Witness ==
    /\ row.step = "appended"
    /\ StrictTimestamps
    /\ Level(df, row.start_idx + 1) = row.swl
    /\ Level(df, row.end_idx - 1) = Level(df, row.end_idx)
===========================================================================
